---------------------------- MODULE Spec2Model ----------------------------
(***************************************************************************)
(* GameActions (lutris/game_actions.py): the table of game actions, the    *)
(* visibility dictionary and the handler callbacks, together with the      *)
(* collaborators the handlers call: the games table, the game config       *)
(* files, notice dialogs, the logger, xdg-open and MonitoredCommand.       *)
(***************************************************************************)
EXTENDS Integers, Sequences, FiniteSets, TLC

VARIABLES
    games,      \* the rows of the games table, each a dictionary column -> value
    configs,    \* the ids of the game config files on disk
    game_id,    \* GameActions.game_id, as left by set_game
    procs,      \* the number of MonitoredCommand processes started and still running
    last,       \* the step taken last (a handler, a process exit) and the input it met
    outcome,    \* how that invocation ended: "returned" or "raised"
    effects     \* what that invocation did to the outside, in order

vars == <<games, configs, game_id, procs, last, outcome, effects>>

-----------------------------------------------------------------------------
\* Bounds of the model.

\* The games table holds at most this many rows.
MaxGames == 2

\* At most this many MonitoredCommand processes run at the same time.
MaxRunning == 1

-----------------------------------------------------------------------------
\* Python values.

\* None, "" and 0 are all falsy; a column's NULL is the falsy value of its type.
TruthyStr(s) == s # ""

TruthyInt(n) == n # 0

Columns ==
    {"id", "name", "slug", "installed", "favorite", "hidden",
     "service", "service_id", "configpath"}

Null(column) ==
    CASE column \in {"slug", "service", "service_id"} -> ""
      [] column \in {"id", "configpath"} -> 0
      [] column = "name" -> <<>>
      [] OTHER -> FALSE

\* dict.pop(key, None): the dictionary without the key.
Pop(d, key) == [k \in DOMAIN d \ {key} |-> d[k]]

\* d[key] = value on a dictionary.
SetItem(d, key, value) ==
    [k \in DOMAIN d \cup {key} |-> IF k = key THEN value ELSE d[k]]

SetMax(S) == IF S = {} THEN 0 ELSE CHOOSE m \in S : \A x \in S : x <= m

-----------------------------------------------------------------------------
\* The file system the handlers look at.

ExistingPaths == {"/games/a", "/bin/script"}

\* The values get_browse_dir can return.
BrowseDirs == {"", "/games/a", "/games/gone"}

\* The values system_config.get("manual_command") can return.
ManualCommands == {"", "/bin/script", "/bin/gone"}

path_exists(path) == TruthyStr(path) /\ path \in ExistingPaths

-----------------------------------------------------------------------------
\* The games table and the config files.

Ids(db) == {r["id"] : r \in db}

get_game_by_field(db, value, field) ==
    IF \E r \in db : r[field] = value
    THEN CHOOSE r \in db : r[field] = value
    ELSE << >>

is_name_in_use(db, name) == \E r \in db : r["name"] = name

\* game_name itself when free, else game_name with the first free index appended.
get_unusued_game_name(db, game_name) ==
    IF ~is_name_in_use(db, game_name)
    THEN game_name
    ELSE LET free == {i \in 1..(Cardinality(db) + 1) :
                          ~is_name_in_use(db, Append(game_name, i))}
         IN  Append(game_name, CHOOSE i \in free : \A j \in free : i <= j)

\* The id of the copy of config file old_config_id.
duplicate_game_config(cfgs, slug, old_config_id) == SetMax(cfgs) + 1

\* INSERT of the given columns; the row gets the next id, other columns are NULL.
NewGameId(db) == SetMax(Ids(db)) + 1

add_game(db, kwargs) ==
    db \cup {[c \in Columns |->
                IF c = "id" THEN NewGameId(db)
                ELSE IF c \in DOMAIN kwargs THEN kwargs[c]
                ELSE Null(c)]}

\* Game(game_id).save(): the row is written back with the fields it was loaded with.
Game_save(db, id) ==
    LET row == get_game_by_field(db, id, "id")
    IN  (db \ {row}) \cup {row}

\* GameActions.game: the Game of game_id.
game == get_game_by_field(games, game_id, "id")

\* Game.add_to_favorites / remove_from_favorites / set_hidden on the row of id.
SetFlag(db, id, column, value) ==
    {IF r["id"] = id THEN [r EXCEPT ![column] = value] ELSE r : r \in db}

-----------------------------------------------------------------------------
\* The action table and the visibility dictionary.

get_game_actions ==
    << <<"play", "Play", "on_game_launch">>,
       <<"stop", "Stop", "on_game_stop">>,
       <<"install", "Install", "on_install_clicked">>,
       <<"update", "Install updates", "on_update_clicked">>,
       <<"install_dlcs", "Install DLCs", "on_install_dlc_clicked">>,
       <<"show_logs", "Show logs", "on_show_logs">>,
       <<"add", "Add installed game", "on_add_manually">>,
       <<"duplicate", "Duplicate", "on_game_duplicate">>,
       <<"configure", "Configure", "on_edit_game_configuration">>,
       <<"favorite", "Add to favorites", "on_add_favorite_game">>,
       <<"deletefavorite", "Remove from favorites", "on_delete_favorite_game">>,
       <<"execute-script", "Execute script", "on_execute_script_clicked">>,
       <<"browse", "Browse files", "on_browse_files">>,
       <<"desktop-shortcut", "Create desktop shortcut", "on_create_desktop_shortcut">>,
       <<"rm-desktop-shortcut", "Delete desktop shortcut", "on_remove_desktop_shortcut">>,
       <<"menu-shortcut", "Create application menu shortcut", "on_create_menu_shortcut">>,
       <<"rm-menu-shortcut", "Delete application menu shortcut", "on_remove_menu_shortcut">>,
       <<"steam-shortcut", "Create steam shortcut", "on_create_steam_shortcut">>,
       <<"rm-steam-shortcut", "Delete steam shortcut", "on_remove_steam_shortcut">>,
       <<"install_more", "Install another version", "on_install_clicked">>,
       <<"remove", "Remove", "on_remove_game">>,
       <<"view", "View on Lutris.net", "on_view_game">>,
       <<"hide", "Hide game from library", "on_hide_game">>,
       <<"unhide", "Unhide game from library", "on_unhide_game">> >>

\* What get_displayed_entries reads besides the game's row: whether the game runs,
\* has updates, its runner and manual_command, and which shortcuts exist.
Surroundings ==
    [is_game_running : BOOLEAN, is_updatable : BOOLEAN,
     runner_name : {"", "linux", "browser"}, manual_command : {"", "/bin/script"},
     desktop_launcher_exists : BOOLEAN, menu_launcher_exists : BOOLEAN,
     shortcut_exists : BOOLEAN, is_steam_game : BOOLEAN]

\* The items of the dictionary literal, in the order they are written.
DisplayedItems(g, s) ==
    << <<"add", ~g["installed"]>>,
       <<"duplicate", TRUE>>,
       <<"install", ~g["installed"]>>,
       <<"play", g["installed"] /\ ~s.is_game_running>>,
       <<"update", s.is_updatable>>,
       <<"install_dlcs", s.is_updatable>>,
       <<"stop", s.is_game_running>>,
       <<"configure", g["installed"]>>,
       <<"browse", g["installed"] /\ s.runner_name # "browser">>,
       <<"show_logs", g["installed"]>>,
       <<"favorite", ~g["favorite"]>>,
       <<"deletefavorite", g["favorite"]>>,
       <<"install_more", ~TruthyStr(g["service"]) /\ g["installed"]>>,
       <<"execute-script", g["installed"] /\ TruthyStr(s.runner_name)
                             /\ TruthyStr(s.manual_command)>>,
       <<"desktop-shortcut", g["installed"] /\ ~s.desktop_launcher_exists>>,
       <<"menu-shortcut", g["installed"] /\ ~s.menu_launcher_exists>>,
       <<"steam-shortcut", g["installed"] /\ ~s.shortcut_exists /\ ~s.is_steam_game>>,
       <<"rm-desktop-shortcut", g["installed"] /\ s.desktop_launcher_exists>>,
       <<"rm-menu-shortcut", g["installed"] /\ s.menu_launcher_exists>>,
       <<"rm-steam-shortcut", g["installed"] /\ s.shortcut_exists /\ ~s.is_steam_game>>,
       <<"remove", TRUE>>,
       <<"view", TRUE>>,
       <<"hide", g["installed"] /\ ~g["hidden"]>>,
       <<"unhide", g["hidden"]>> >>

\* The keys of the literal, in the order they are written: they are constants of
\* the source, the same whatever the game and the surroundings.
DisplayedKeys ==
    LET items == DisplayedItems([c \in Columns |-> Null(c)],
                                CHOOSE s \in Surroundings : TRUE)
    IN  [i \in DOMAIN items |-> items[i][1]]

\* A dictionary literal has one entry per key, a repeated key keeping the value
\* written last: for each key, the position of its value.
DisplayedIndex ==
    [k \in {DisplayedKeys[i] : i \in DOMAIN DisplayedKeys} |->
        SetMax({i \in DOMAIN DisplayedKeys : DisplayedKeys[i] = k})]

\* A variant that returns only the entries that are to be shown.
get_displayed_entries_shown_only(g, s) ==
    LET items == DisplayedItems(g, s)
    IN  [k \in {key \in DOMAIN DisplayedIndex : items[DisplayedIndex[key]][2]} |->
            items[DisplayedIndex[k]][2]]

get_displayed_entries(g, s) ==
    LET items == DisplayedItems(g, s)
    IN  [k \in DOMAIN DisplayedIndex |-> items[DisplayedIndex[k]][2]]

-----------------------------------------------------------------------------
\* The handlers. Each records the call, how it ended and what it did.

Call(op, arg, out, eff) ==
    /\ last' = [op |-> op, arg |-> arg]
    /\ outcome' = out
    /\ effects' = eff

set_game(id) ==
    /\ id \in Ids(games)
    /\ game_id' = id
    /\ UNCHANGED <<games, configs, procs, last, outcome, effects>>

on_game_launch ==
    /\ Call("on_game_launch", "", "returned", << <<"game", "launch", "">> >>)
    /\ UNCHANGED <<games, configs, game_id, procs>>

\* get_running_game: the game when its id is among the running ids, else a
\* warning and None.
on_game_stop(is_running) ==
    /\ Call("on_game_stop", IF is_running THEN "running" ELSE "stopped", "returned",
            IF is_running
            THEN << <<"game", "force_stop", "">> >>
            ELSE << <<"log", "warning", "Game %s not in %s">> >>)
    /\ UNCHANGED <<games, configs, game_id, procs>>

on_show_logs(log_buffer) ==
    /\ Call("on_show_logs", log_buffer, "returned",
            (IF ~TruthyStr(log_buffer)
             THEN << <<"log", "info", "No log for game %s">> >>
             ELSE << >>)
            \o << <<"window", "LogWindow", log_buffer>> >>)
    /\ UNCHANGED <<games, configs, game_id, procs>>

\* A variant that logs the missing slug and returns instead of raising.
on_install_clicked_logs ==
    /\ IF ~TruthyStr(game["slug"])
       THEN Call("on_install_clicked", game["slug"], "returned",
                 << <<"log", "error", "No game to install: %s">> >>)
       ELSE Call("on_install_clicked", game["slug"], "returned",
                 << <<"emit", "game-install", "">> >>)
    /\ UNCHANGED <<games, configs, game_id, procs>>

on_install_clicked ==
    /\ IF ~TruthyStr(game["slug"])
       THEN Call("on_install_clicked", game["slug"], "raised", << >>)
       ELSE Call("on_install_clicked", game["slug"], "returned",
                 << <<"emit", "game-install", "">> >>)
    /\ UNCHANGED <<games, configs, game_id, procs>>

on_update_clicked ==
    /\ Call("on_update_clicked", "", "returned",
            << <<"emit", "game-install-update", "">> >>)
    /\ UNCHANGED <<games, configs, game_id, procs>>

on_install_dlc_clicked ==
    /\ Call("on_install_dlc_clicked", "", "returned",
            << <<"emit", "game-install-dlc", "">> >>)
    /\ UNCHANGED <<games, configs, game_id, procs>>

on_locate_installed_game ==
    /\ Call("on_locate_installed_game", "", "returned",
            << <<"window", "AddGameDialog", "">> >>)
    /\ UNCHANGED <<games, configs, game_id, procs>>

on_add_manually ==
    /\ Call("on_add_manually", "", "returned",
            << <<"window", "AddGameDialog", "">> >>)
    /\ UNCHANGED <<games, configs, game_id, procs>>

\* confirm_dlg.result != Gtk.ResponseType.YES returns; only YES goes on.
Responses == {"YES", "NO", "DELETE_EVENT"}

\* A variant that goes on unless the answer is NO.
Confirmed_unless_no(result) == result # "NO"

Confirmed(result) == result = "YES"

\* The keyword arguments of add_game: the original's row under the assigned name
\* and the new config, without its id and without its link to a service.
\* A variant that leaves the copy linked to the original's service.
DuplicateRow_keeps_service(db_game, assigned_name, new_config_id) ==
    Pop(SetItem(SetItem(db_game, "name", assigned_name),
                "configpath", new_config_id),
        "id")

DuplicateRow(db_game, assigned_name, new_config_id) ==
    Pop(Pop(Pop(SetItem(SetItem(db_game, "name", assigned_name),
                        "configpath", new_config_id),
                "id"), "service"), "service_id")

on_game_duplicate(result) ==
    /\ Confirmed(result) => Cardinality(games) < MaxGames
    /\ Call("on_game_duplicate", result, "returned",
            << <<"dialog", "QuestionDialog", result>> >>)
    /\ IF ~Confirmed(result)
       THEN UNCHANGED <<games, configs>>
       ELSE LET assigned_name == get_unusued_game_name(games, game["name"])
                old_config_id == game["configpath"]
                new_config_id ==
                    IF TruthyInt(old_config_id)
                    THEN duplicate_game_config(configs, game["slug"], old_config_id)
                    ELSE Null("configpath")
                db_game == DuplicateRow(get_game_by_field(games, game["id"], "id"),
                                        assigned_name, new_config_id)
            IN  /\ games' = Game_save(add_game(games, db_game), NewGameId(games))
                /\ configs' = IF TruthyInt(old_config_id)
                              THEN configs \cup {new_config_id}
                              ELSE configs
    /\ UNCHANGED <<game_id, procs>>

on_edit_game_configuration ==
    /\ Call("on_edit_game_configuration", "", "returned",
            << <<"window", "EditGameConfigDialog", "">> >>)
    /\ UNCHANGED <<games, configs, game_id, procs>>

on_add_favorite_game ==
    /\ Call("on_add_favorite_game", "", "returned", << >>)
    /\ games' = SetFlag(games, game["id"], "favorite", TRUE)
    /\ UNCHANGED <<configs, game_id, procs>>

on_delete_favorite_game ==
    /\ Call("on_delete_favorite_game", "", "returned", << >>)
    /\ games' = SetFlag(games, game["id"], "favorite", FALSE)
    /\ UNCHANGED <<configs, game_id, procs>>

on_hide_game ==
    /\ Call("on_hide_game", "", "returned", << >>)
    /\ games' = SetFlag(games, game["id"], "hidden", TRUE)
    /\ UNCHANGED <<configs, game_id, procs>>

\* A variant that calls remove_from_favorites where set_hidden(False) is meant.
on_unhide_game_unfavorites ==
    /\ Call("on_unhide_game", "", "returned", << >>)
    /\ games' = SetFlag(games, game["id"], "favorite", FALSE)
    /\ UNCHANGED <<configs, game_id, procs>>

on_unhide_game ==
    /\ Call("on_unhide_game", "", "returned", << >>)
    /\ games' = SetFlag(games, game["id"], "hidden", FALSE)
    /\ UNCHANGED <<configs, game_id, procs>>

\* path_exists(manual_command) decides whether the command is started.
\* A variant that only asks whether a command is configured.
StartsCommand_if_set(manual_command) == TruthyStr(manual_command)

StartsCommand(manual_command) == path_exists(manual_command)

\* self.game.runner is None for a game without a runner: the attribute access raises.
on_execute_script_clicked(has_runner, manual_command) ==
    /\ (has_runner /\ StartsCommand(manual_command)) => procs < MaxRunning
    /\ IF ~has_runner
       THEN /\ Call("on_execute_script_clicked", "no runner", "raised", << >>)
            /\ UNCHANGED procs
       ELSE IF StartsCommand(manual_command)
       THEN /\ Call("on_execute_script_clicked", manual_command, "returned",
                    << <<"MonitoredCommand", "start", manual_command>>,
                       <<"log", "info", "Running %s in the background">> >>)
            /\ procs' = procs + 1
       ELSE /\ Call("on_execute_script_clicked", manual_command, "returned", << >>)
            /\ UNCHANGED procs
    /\ UNCHANGED <<games, configs, game_id>>

\* The started command ends on its own, with any exit code; nobody waits for it.
ProcessExit(code) ==
    /\ procs > 0
    /\ procs' = procs - 1
    /\ last' = [op |-> "process_exit", arg |-> code]
    /\ UNCHANGED <<games, configs, game_id, outcome, effects>>

\* system.execute(["xdg-open", uri])
open_uri(scheme, rest) == <<"xdg-open", scheme, rest>>

NoticeDialog(message) == <<"notice", "NoticeDialog", message>>

\* A variant that opens whatever path is set, without asking whether it exists.
browse_files_unchecked(path) ==
    IF ~TruthyStr(path)
    THEN << NoticeDialog("This game has no installation directory") >>
    ELSE << open_uri("file://", path) >>

browse_files(path) ==
    IF ~TruthyStr(path)
    THEN << NoticeDialog("This game has no installation directory") >>
    ELSE IF path_exists(path)
    THEN << open_uri("file://", path) >>
    ELSE << NoticeDialog("Can't open %s. The folder doesn't exist.") >>

on_browse_files(path) ==
    /\ Call("on_browse_files", path, "returned", browse_files(path))
    /\ UNCHANGED <<games, configs, game_id, procs>>

on_create_menu_shortcut ==
    /\ Call("on_create_menu_shortcut", "", "returned",
            << <<"create_launcher", "menu", game["slug"]>> >>)
    /\ UNCHANGED <<games, configs, game_id, procs>>

on_create_steam_shortcut ==
    /\ Call("on_create_steam_shortcut", "", "returned",
            << <<"steam_shortcut", "create_shortcut", game["slug"]>> >>)
    /\ UNCHANGED <<games, configs, game_id, procs>>

on_create_desktop_shortcut ==
    /\ Call("on_create_desktop_shortcut", "", "returned",
            << <<"create_launcher", "desktop", game["slug"]>> >>)
    /\ UNCHANGED <<games, configs, game_id, procs>>

on_remove_menu_shortcut ==
    /\ Call("on_remove_menu_shortcut", "", "returned",
            << <<"remove_launcher", "menu", game["slug"]>> >>)
    /\ UNCHANGED <<games, configs, game_id, procs>>

on_remove_steam_shortcut ==
    /\ Call("on_remove_steam_shortcut", "", "returned",
            << <<"steam_shortcut", "remove_shortcut", game["slug"]>> >>)
    /\ UNCHANGED <<games, configs, game_id, procs>>

on_remove_desktop_shortcut ==
    /\ Call("on_remove_desktop_shortcut", "", "returned",
            << <<"remove_launcher", "desktop", game["slug"]>> >>)
    /\ UNCHANGED <<games, configs, game_id, procs>>

on_view_game ==
    /\ Call("on_view_game", "", "returned",
            << open_uri("https://lutris.net/games/", game["slug"]) >>)
    /\ UNCHANGED <<games, configs, game_id, procs>>

on_remove_game ==
    /\ Call("on_remove_game", "", "returned",
            IF game["installed"]
            THEN << <<"window", "UninstallGameDialog", "">> >>
            ELSE << <<"window", "RemoveGameDialog", "">> >>)
    /\ UNCHANGED <<games, configs, game_id, procs>>

-----------------------------------------------------------------------------
\* The library at start holds one game: a game installed from a service, with a
\* config file; or an installed game of no service, with a config file; or a game
\* of no service that is not installed and has neither slug nor config.

ServiceGame ==
    [c \in Columns |->
        CASE c = "id" -> 1
          [] c = "name" -> <<1>>
          [] c = "slug" -> "game-a"
          [] c = "installed" -> TRUE
          [] c = "service" -> "gog"
          [] c = "service_id" -> "gog-1"
          [] c = "configpath" -> 1
          [] OTHER -> FALSE]

LocalGame ==
    [ServiceGame EXCEPT !["service"] = "", !["service_id"] = ""]

BareGame ==
    [c \in Columns |->
        CASE c = "id" -> 1
          [] c = "name" -> <<1>>
          [] OTHER -> Null(c)]

Init ==
    /\ games \in {{ServiceGame}, {LocalGame}, {BareGame}}
    /\ configs = {r["configpath"] : r \in games} \ {Null("configpath")}
    /\ game_id \in Ids(games)
    /\ procs = 0
    /\ last = [op |-> "none", arg |-> ""]
    /\ outcome = "returned"
    /\ effects = << >>

Next ==
    \/ \E id \in Ids(games) : set_game(id)
    \/ on_game_launch
    \/ \E is_running \in BOOLEAN : on_game_stop(is_running)
    \/ \E log_buffer \in {"", "log text"} : on_show_logs(log_buffer)
    \/ on_install_clicked
    \/ on_update_clicked
    \/ on_install_dlc_clicked
    \/ on_locate_installed_game
    \/ on_add_manually
    \/ \E result \in Responses : on_game_duplicate(result)
    \/ on_edit_game_configuration
    \/ on_add_favorite_game
    \/ on_delete_favorite_game
    \/ on_hide_game
    \/ on_unhide_game
    \/ \E has_runner \in BOOLEAN, manual_command \in ManualCommands :
           on_execute_script_clicked(has_runner, manual_command)
    \/ \E code \in {"0", "1"} : ProcessExit(code)
    \/ \E path \in BrowseDirs : on_browse_files(path)
    \/ on_create_menu_shortcut
    \/ on_create_steam_shortcut
    \/ on_create_desktop_shortcut
    \/ on_remove_menu_shortcut
    \/ on_remove_steam_shortcut
    \/ on_remove_desktop_shortcut
    \/ on_view_game
    \/ on_remove_game

Spec == Init /\ [][Next]_vars

\* The steps that change what get_displayed_entries reads from the library: the
\* selection, the favorite and hidden flags, and the games themselves.
NextMenu ==
    \/ \E id \in Ids(games) : set_game(id)
    \/ \E result \in Responses : on_game_duplicate(result)
    \/ on_add_favorite_game
    \/ on_delete_favorite_game
    \/ on_hide_game
    \/ on_unhide_game

MenuSpec == Init /\ [][NextMenu]_vars

-----------------------------------------------------------------------------
\* Vocabulary of the properties.

ActionIds == {get_game_actions[i][1] : i \in DOMAIN get_game_actions}

\* The callbacks GameActions defines.
HandlerNames ==
    {"on_game_launch", "on_game_stop", "on_show_logs", "on_install_clicked",
     "on_update_clicked", "on_install_dlc_clicked", "on_locate_installed_game",
     "on_add_manually", "on_game_duplicate", "on_edit_game_configuration",
     "on_add_favorite_game", "on_delete_favorite_game", "on_hide_game",
     "on_unhide_game", "on_execute_script_clicked", "on_browse_files",
     "on_create_menu_shortcut", "on_create_steam_shortcut",
     "on_create_desktop_shortcut", "on_remove_menu_shortcut",
     "on_remove_steam_shortcut", "on_remove_desktop_shortcut", "on_view_game",
     "on_remove_game"}

InitialLibraries == {{ServiceGame}, {LocalGame}, {BareGame}}

\* A step in which the handler op ran: it leaves game_id alone and names itself.
StepOf(op) == last'.op = op /\ game_id' = game_id

Kinds(eff) == {eff[i][1] : i \in DOMAIN eff}

CountKind(eff, kind) == Cardinality({i \in DOMAIN eff : eff[i][1] = kind})

RowOf(db, id) == CHOOSE r \in db : r["id"] = id

LinkedTo(db, service, service_id) ==
    {r \in db : r["service"] = service /\ r["service_id"] = service_id}

-----------------------------------------------------------------------------
\* C1: in every game state and whatever the surroundings, the ids of the action
\* table and the keys of the visibility dictionary are the same set; no id is
\* listed twice, no key is written twice, and every action names one callback
\* of GameActions.
C1_ActionsMatchEntries ==
    \A s \in Surroundings :
        /\ DOMAIN get_displayed_entries(game, s) = ActionIds
        /\ Len(DisplayedItems(game, s)) = Cardinality(ActionIds)
        /\ Len(get_game_actions) = Cardinality(ActionIds)
        /\ \A i \in DOMAIN get_game_actions : get_game_actions[i][3] \in HandlerNames

\* C1 witness: a hidden favorite is selected, so that entries are both shown and
\* not shown, after the library has grown.
C1_Witness ==
    /\ game["hidden"] /\ game["favorite"] /\ game["installed"]
    /\ Cardinality(games) = 2
    /\ \E s \in Surroundings :
          /\ get_displayed_entries(game, s)["unhide"]
          /\ ~get_displayed_entries(game, s)["hide"]

\* C2 as stated: whatever handlers have run, the games table is the one the
\* program started with (same games, same installed/favorite/hidden flags).
C2_HandlersOnlyRead == games \in InitialLibraries

\* C2 amended: no step removes a game or changes a game's installed flag or any
\* column other than favorite and hidden; favorite changes only in a step of
\* on_add_favorite_game (to true) or on_delete_favorite_game (to false), hidden
\* only in a step of on_hide_game (to true) or on_unhide_game (to false), both
\* only on the selected game; a game is added only by on_game_duplicate
\* answered YES; every other handler leaves the table unchanged.
C2_HandlersWriteFlagsAndDuplicates ==
    [][games' # games =>
         /\ last'.op \in {"on_add_favorite_game", "on_delete_favorite_game",
                          "on_hide_game", "on_unhide_game", "on_game_duplicate"}
         /\ Ids(games') # Ids(games) =>
               StepOf("on_game_duplicate") /\ last'.arg = "YES"
         /\ \A r \in games :
               /\ r["id"] \in Ids(games')
               /\ LET after == RowOf(games', r["id"])
                  IN  /\ [after EXCEPT !["favorite"] = r["favorite"],
                                       !["hidden"] = r["hidden"]] = r
                      /\ after["favorite"] # r["favorite"] =>
                            /\ r["id"] = game_id
                            /\ IF r["favorite"]
                               THEN StepOf("on_delete_favorite_game")
                               ELSE StepOf("on_add_favorite_game")
                      /\ after["hidden"] # r["hidden"] =>
                            /\ r["id"] = game_id
                            /\ IF r["hidden"]
                               THEN StepOf("on_unhide_game")
                               ELSE StepOf("on_hide_game")
      ]_vars

\* C2 witness: on_add_favorite_game has set the favorite flag of the selected game.
C2_Witness ==
    /\ last.op = "on_add_favorite_game"
    /\ game["favorite"]
    /\ games \notin InitialLibraries

-----------------------------------------------------------------------------
\* The error conditions the handlers detect, as met by the last invocation.
NoSlugToInstall == last.op = "on_install_clicked" /\ last.arg = ""

NoBrowseDir == last.op = "on_browse_files" /\ last.arg = ""

BrowseDirMissing ==
    last.op = "on_browse_files" /\ last.arg # "" /\ ~path_exists(last.arg)

ScriptMissing ==
    /\ last.op = "on_execute_script_clicked"
    /\ last.arg \in ManualCommands
    /\ ~path_exists(last.arg)

NoLogBuffer == last.op = "on_show_logs" /\ last.arg = ""

ErrorDetected ==
    NoSlugToInstall \/ NoBrowseDir \/ BrowseDirMissing \/ ScriptMissing \/ NoLogBuffer

\* Nothing was carried out or tried again: no URI opened, no command started,
\* no signal emitted.
NothingCarriedOut == Kinds(effects) \cap {"xdg-open", "MonitoredCommand", "emit"} = {}

\* C3 as stated: every detected error is logged or shown in a notice dialog, and
\* the handler returns normally.
C3_ErrorsLoggedOrNoticed ==
    ErrorDetected =>
        /\ outcome = "returned"
        /\ Kinds(effects) \cap {"log", "notice"} # {}

\* C3 amended: an empty or missing browse directory shows one notice dialog and
\* returns; a missing log buffer is logged and the log window is still opened;
\* a missing manual script path is skipped silently (nothing logged, no notice);
\* install for a game with no slug raises to the caller with nothing logged and
\* no notice. In none of these cases is anything carried out or retried.
C3_ErrorsNoticedLoggedSkippedOrRaised ==
    /\ (NoBrowseDir \/ BrowseDirMissing) =>
          /\ outcome = "returned"
          /\ Len(effects) = 1 /\ effects[1][1] = "notice"
    /\ NoLogBuffer =>
          /\ outcome = "returned"
          /\ Len(effects) = 2
          /\ effects[1][1] = "log" /\ effects[2] = <<"window", "LogWindow", "">>
    /\ ScriptMissing => outcome = "returned" /\ effects = << >>
    /\ NoSlugToInstall => outcome = "raised" /\ effects = << >>
    /\ ErrorDetected => NothingCarriedOut

\* C3 witness: install was asked for the game that has no slug.
C3_Witness == NoSlugToInstall /\ outcome = "raised"

-----------------------------------------------------------------------------
\* C4: a command is started only by on_execute_script_clicked, one per
\* invocation and exactly when the manual_command path exists; the handler has
\* returned while the command still runs; a missing path starts nothing; the
\* exit of a command, whatever its code, starts nothing.
C4_FireAndForget ==
    [][/\ procs' > procs =>
             /\ StepOf("on_execute_script_clicked")
             /\ path_exists(last'.arg)
             /\ procs' = procs + 1
       /\ StepOf("on_execute_script_clicked") =>
             /\ CountKind(effects', "MonitoredCommand")
                    = (IF path_exists(last'.arg) THEN 1 ELSE 0)
             /\ procs' = procs + CountKind(effects', "MonitoredCommand")
             /\ path_exists(last'.arg) => outcome' = "returned" /\ procs' > 0
       /\ last'.op = "process_exit" => procs' <= procs /\ effects' = effects
      ]_vars

\* C4 witness: the command has been started, has ended, and nothing runs.
C4_Witness ==
    /\ last.op = "process_exit"
    /\ procs = 0
    /\ CountKind(effects, "MonitoredCommand") = 1

-----------------------------------------------------------------------------
\* C5: no two games are linked to the same service game, and a step that adds a
\* game adds one of a new id and an unused name, linked to no service, whose
\* configpath is a config file that did not exist before when the original has
\* one and is NULL otherwise; no service game gains a linked game.
C5_DuplicateLeavesService ==
    [][Cardinality(games') > Cardinality(games) =>
         LET new == CHOOSE r \in games' : r["id"] \notin Ids(games)
         IN  /\ games' \ games = {new}
             /\ ~is_name_in_use(games, new["name"])
             /\ new["service"] = "" /\ new["service_id"] = ""
             /\ IF TruthyInt(game["configpath"])
                THEN /\ TruthyInt(new["configpath"])
                     /\ new["configpath"] \notin configs
                     /\ new["configpath"] \in configs'
                ELSE new["configpath"] = Null("configpath")
             /\ \A r \in games :
                    TruthyStr(r["service"]) =>
                        Cardinality(LinkedTo(games', r["service"], r["service_id"]))
                            <= Cardinality(LinkedTo(games, r["service"], r["service_id"]))
             /\ \A r1, r2 \in games' :
                    (/\ TruthyStr(r1["service"])
                     /\ r1["service"] = r2["service"]
                     /\ r1["service_id"] = r2["service_id"]) => r1 = r2
      ]_vars

\* C5 witness: the service game, which has a config file, has been duplicated.
C5_Witness ==
    /\ last.op = "on_game_duplicate"
    /\ Cardinality(games) = 2
    /\ \E r1, r2 \in games :
          /\ r1["service"] = "gog" /\ r2["service"] = ""
          /\ r2["name"] = <<1, 1>>
          /\ r2["configpath"] = 2
    /\ configs = {1, 2}

-----------------------------------------------------------------------------
-----------------------------------------------------------------------------
\* C7: on_browse_files does exactly one thing: the no-directory notice for an
\* empty path, xdg-open of file://path for a path that exists, the
\* folder-doesn't-exist notice otherwise; and it returns.
C7_BrowseOneOutcome ==
    last.op = "on_browse_files" =>
        /\ outcome = "returned"
        /\ Len(effects) = 1
        /\ CASE last.arg = "" ->
                   effects[1] = <<"notice", "NoticeDialog",
                                  "This game has no installation directory">>
             [] last.arg \in ExistingPaths ->
                   effects[1] = <<"xdg-open", "file://", last.arg>>
             [] OTHER ->
                   effects[1] = <<"notice", "NoticeDialog",
                                  "Can't open %s. The folder doesn't exist.">>

\* C7 witness: the browse directory is set and does not exist.
C7_Witness ==
    /\ last.op = "on_browse_files"
    /\ last.arg = "/games/gone"
    /\ effects[1][1] = "notice"

=============================================================================
